---- MODULE Spec2Model ----
(***************************************************************************)
(* Chatbot demo (src/chat_demo/chat_demo/src/App.tsx): the conversation    *)
(* state of the App component, the exchange started by handleSendMessage   *)
(* and completed by its setTimeout callback, the provider selection, and   *)
(* the response functions getGeminiResponse / getOpenAIResponse /          *)
(* getBotResponse.                                                         *)
(*                                                                         *)
(* Strings are sequences of one-character strings, so that trim() and the  *)
(* truthiness of a reply text are computed, not assumed.                   *)
(***************************************************************************)
EXTENDS Integers, Sequences, FiniteSets, TLC

----------------------------------------------------------------------------
(* Bounds of the model *)

\* longest text typed into the input field
MaxLen == 2

\* number of accepted submissions in one behaviour
MaxExchanges == 2

\* number of getBotResponse calls in one behaviour of RouterSpec
MaxCalls == 2

----------------------------------------------------------------------------
(* Strings *)

\* characters removed by String.prototype.trim
WhiteSpace == {" ", "\t"}

\* characters the user types
Chars == {"h", " "}

\* all texts of length at most n over Chars
TextsUpTo(n) == UNION {[1..k -> Chars] : k \in 0..n}

\* the values the input field can take
Texts == TextsUpTo(MaxLen)

RECURSIVE trimStart(_)
trimStart(s) ==
    IF s # <<>> /\ Head(s) \in WhiteSpace THEN trimStart(Tail(s)) ELSE s

RECURSIVE trimEnd(_)
trimEnd(s) ==
    IF s # <<>> /\ s[Len(s)] \in WhiteSpace
    THEN trimEnd(SubSeq(s, 1, Len(s) - 1))
    ELSE s

\* trim with a slip: the text is taken as typed
trimNothing(s) == s

\* input.trim()
trim(s) == trimEnd(trimStart(s))

\* "Oops! I seem to be having a network issue or an API issue. Please try again."
networkIssueText ==
    << "O", "o", "p", "s", "!", " ", "I", " ", "s", "e", "e", "m", " ", "t",
       "o", " ", "b", "e", " ", "h", "a", "v", "i", "n", "g", " ", "a", " ",
       "n", "e", "t", "w", "o", "r", "k", " ", "i", "s", "s", "u", "e", " ",
       "o", "r", " ", "a", "n", " ", "A", "P", "I", " ", "i", "s", "s", "u",
       "e", ".", " ", "P", "l", "e", "a", "s", "e", " ", "t", "r", "y", " ",
       "a", "g", "a", "i", "n", "." >>

\* "I'm sorry, I couldn't generate a response. Please try again."
couldNotGenerateText ==
    << "I", "'", "m", " ", "s", "o", "r", "r", "y", ",", " ", "I", " ", "c",
       "o", "u", "l", "d", "n", "'", "t", " ", "g", "e", "n", "e", "r", "a",
       "t", "e", " ", "a", " ", "r", "e", "s", "p", "o", "n", "s", "e", ".",
       " ", "P", "l", "e", "a", "s", "e", " ", "t", "r", "y", " ", "a", "g",
       "a", "i", "n", "." >>

\* "This is a response from the simulated ChatGPT. I can help you with creative writing, code snippets, and general knowledge."
chatgptPersonaText ==
    << "T", "h", "i", "s", " ", "i", "s", " ", "a", " ", "r", "e", "s", "p",
       "o", "n", "s", "e", " ", "f", "r", "o", "m", " ", "t", "h", "e", " ",
       "s", "i", "m", "u", "l", "a", "t", "e", "d", " ", "C", "h", "a", "t",
       "G", "P", "T", ".", " ", "I", " ", "c", "a", "n", " ", "h", "e", "l",
       "p", " ", "y", "o", "u", " ", "w", "i", "t", "h", " ", "c", "r", "e",
       "a", "t", "i", "v", "e", " ", "w", "r", "i", "t", "i", "n", "g", ",",
       " ", "c", "o", "d", "e", " ", "s", "n", "i", "p", "p", "e", "t", "s",
       ",", " ", "a", "n", "d", " ", "g", "e", "n", "e", "r", "a", "l", " ",
       "k", "n", "o", "w", "l", "e", "d", "g", "e", "." >>

\* "Hello! I am the simulated Claude model. I am known for my coherent and thoughtful long-form responses."
claudePersonaText ==
    << "H", "e", "l", "l", "o", "!", " ", "I", " ", "a", "m", " ", "t", "h",
       "e", " ", "s", "i", "m", "u", "l", "a", "t", "e", "d", " ", "C", "l",
       "a", "u", "d", "e", " ", "m", "o", "d", "e", "l", ".", " ", "I", " ",
       "a", "m", " ", "k", "n", "o", "w", "n", " ", "f", "o", "r", " ", "m",
       "y", " ", "c", "o", "h", "e", "r", "e", "n", "t", " ", "a", "n", "d",
       " ", "t", "h", "o", "u", "g", "h", "t", "f", "u", "l", " ", "l", "o",
       "n", "g", "-", "f", "o", "r", "m", " ", "r", "e", "s", "p", "o", "n",
       "s", "e", "s", "." >>

\* "I'm not sure which model you want me to use."
notSureWhichModelText ==
    << "I", "'", "m", " ", "n", "o", "t", " ", "s", "u", "r", "e", " ", "w",
       "h", "i", "c", "h", " ", "m", "o", "d", "e", "l", " ", "y", "o", "u",
       " ", "w", "a", "n", "t", " ", "m", "e", " ", "t", "o", " ", "u", "s",
       "e", "." >>

\* "Hi there"
HiThere ==
    << "H", "i", " ", "t", "h", "e", "r", "e" >>

----------------------------------------------------------------------------
(* JavaScript values of the parsed response body *)

JUndefined == [type |-> "undefined"]

JNull == [type |-> "null"]

JString(s) == [type |-> "string", str |-> s]

JArray(items) == [type |-> "array", items |-> items]

JObject(fields) == [type |-> "object", fields |-> fields]

\* the empty object {}
JEmptyObject == JObject(<<>>)

IsNullish(v) == v.type \in {"undefined", "null"}

\* v.key on a value that is not null or undefined
Prop(v, key) ==
    IF v.type = "object" /\ key \in DOMAIN v.fields
    THEN v.fields[key]
    ELSE JUndefined

\* v[0] on a value that is not null or undefined
Index0(v) ==
    IF v.type = "array" /\ Len(v.items) > 0 THEN v.items[1]
    ELSE IF v.type = "string" /\ Len(v.str) > 0 THEN JString(<<v.str[1]>>)
    ELSE JUndefined

\* v?.key
OptProp(v, key) == IF IsNullish(v) THEN JUndefined ELSE Prop(v, key)

\* v?.[0]
OptIndex0(v) == IF IsNullish(v) THEN JUndefined ELSE Index0(v)

\* the value counts as true in a condition
Truthy(v) ==
    CASE v.type \in {"undefined", "null"} -> FALSE
      [] v.type = "string" -> v.str # <<>>
      [] OTHER -> TRUE

\* a body {"candidates":[{"content":{"parts":[part]}}]}
BodyWithPart(part) ==
    JObject([candidates |->
        JArray(<< JObject([content |->
            JObject([parts |-> JArray(<<part>>)])]) >>)])

\* a body whose reply path holds the text t
BodyWithText(t) == BodyWithPart(JObject([text |-> JString(t)]))

\* reply texts the endpoint sends: a sentence, one character, white space
\* only, the empty string
ReplyTexts == {HiThere, <<"h">>, <<" ">>, <<>>}

\* parsed bodies in which the reply path is present
BodiesWithText == {BodyWithText(t) : t \in ReplyTexts}

\* parsed bodies in which the reply path is absent or broken somewhere
BodiesWithoutText ==
    { JNull,
      JEmptyObject,
      JString(<<"h">>),
      JArray(<<>>),
      JObject([candidates |-> JNull]),
      JObject([candidates |-> JArray(<<>>)]),
      JObject([candidates |-> JArray(<<JNull>>)]),
      JObject([candidates |-> JArray(<<JEmptyObject>>)]),
      JObject([candidates |-> JString(<<"h">>)]),
      JObject([candidates |-> JArray(<<JObject([content |-> JNull])>>)]),
      JObject([candidates |-> JArray(<<JObject([content |-> JEmptyObject])>>)]),
      JObject([candidates |->
          JArray(<<JObject([content |-> JObject([parts |-> JNull])])>>)]),
      JObject([candidates |->
          JArray(<<JObject([content |-> JObject([parts |-> JArray(<<>>)])])>>)]),
      BodyWithPart(JNull),
      BodyWithPart(JEmptyObject),
      BodyWithPart(JObject([text |-> JNull])) }

Bodies == BodiesWithText \cup BodiesWithoutText

----------------------------------------------------------------------------
(* Outcomes of the HTTP call *)

\* the body text is not JSON: response.json() rejects
MalformedJson == [type |-> "malformed"]

\* fetch rejects (DNS failure, timeout, connection reset)
FetchRejected == [kind |-> "reject"]

HttpResponse(status, body) ==
    [kind |-> "response", status |-> status, body |-> body]

\* statuses the endpoint answers with
OkStatuses == {200, 299}

ErrorStatuses == {300, 404, 500}

HttpOutcomes ==
    {FetchRejected}
    \cup {HttpResponse(s, JEmptyObject) : s \in ErrorStatuses}
    \cup {HttpResponse(s, b) : s \in OkStatuses, b \in Bodies \cup {MalformedJson}}

\* response.ok
ok(response) == response.status \in 200..299

----------------------------------------------------------------------------
(* Completions of a function call *)

Return(v) == [kind |-> "return", value |-> v]

\* an exception propagates out of the evaluation
Throw == [kind |-> "throw", value |-> <<>>]

----------------------------------------------------------------------------
(* The response functions *)

AiModel == {"gemini", "chatgpt", "claude"}

\* identifiers getBotResponse can be handed at run time, one of them
\* outside the AiModel type
ModelIds == AiModel \cup {"llama"}

\* lines 103-109: the reply text of a parsed body
extractReply(result) ==
    IF IsNullish(result)
    THEN Throw
    ELSE LET candidate == OptIndex0(Prop(result, "candidates"))
             text == IF Truthy(candidate)
                     THEN OptProp(OptIndex0(OptProp(Prop(candidate, "content"),
                                                    "parts")), "text")
                     ELSE candidate
         IN  IF Truthy(candidate) /\ Truthy(text)
             THEN Return(text.str)
             ELSE Return(couldNotGenerateText)

\* lines 92-109: the body of the try block
geminiTry(userMessage, outcome) ==
    IF outcome.kind = "reject" THEN Throw
    ELSE IF ~ok(outcome) THEN Throw
    ELSE IF outcome.body = MalformedJson THEN Throw
    ELSE extractReply(outcome.body)

\* getGeminiResponse with a slip: no catch block
getGeminiResponseNoCatch(userMessage, outcome) ==
    geminiTry(userMessage, outcome)

getGeminiResponse(userMessage, outcome) ==
    LET r == geminiTry(userMessage, outcome)
    IN  IF r.kind = "throw" THEN Return(networkIssueText) ELSE r

getOpenAIResponse == Return(chatgptPersonaText)

\* getBotResponse with a slip: the default branch throws
getBotResponseDefaultThrows(userMessage, model, outcome) ==
    CASE model = "gemini" -> getGeminiResponse(userMessage, outcome)
      [] model = "chatgpt" -> getOpenAIResponse
      [] model = "claude" -> Return(claudePersonaText)
      [] OTHER -> Throw

\* getBotResponse with a slip: the claude case answers with the text it
\* was given
getBotResponseClaudeEchoes(userMessage, model, outcome) ==
    CASE model = "gemini" -> getGeminiResponse(userMessage, outcome)
      [] model = "chatgpt" -> getOpenAIResponse
      [] model = "claude" -> Return(userMessage)
      [] OTHER -> Return(notSureWhichModelText)

getBotResponse(userMessage, model, outcome) ==
    CASE model = "gemini" -> getGeminiResponse(userMessage, outcome)
      [] model = "chatgpt" -> getOpenAIResponse
      [] model = "claude" -> Return(claudePersonaText)
      [] OTHER -> Return(notSureWhichModelText)

\* fetchCalls with a slip: every provider sends a request
fetchCallsAlways(model) == 1

\* HTTP requests sent by one call of getBotResponse (line 92)
fetchCalls(model) == IF model = "gemini" THEN 1 ELSE 0

----------------------------------------------------------------------------
(* State *)

VARIABLES
    messages,       \* useState<ChatMessage[]>([])
    input,          \* useState<string>('')
    isTyping,       \* useState<boolean>(false)
    selectedModel,  \* useState<AiModel>('gemini')
    exchanges,      \* one record per accepted submission, in submission
                    \* order: the closure of its setTimeout callback
                    \* (trimmedInput, selectedModel), its position (pc) and
                    \* the timers that were running when it was scheduled
    httpRequests,   \* number of fetch calls made so far
    owner,          \* history: owner[k] is the exchange of messages[k]
    log,            \* history: the exchange and sender of every Message
                    \* ever appended, in the order of the appends
    event,          \* history: the handler that made the last step
                    \* (handleSendMessage, handleModelChange with its
                    \* argument, or "other" for onChange and the callback)
    router          \* the getBotResponse calls of RouterSpec

vars ==
    << messages, input, isTyping, selectedModel, exchanges, httpRequests,
       owner, log, event, router >>

appVars ==
    << messages, input, isTyping, selectedModel, exchanges, httpRequests,
       owner, log, event >>

\* a ChatMessage of the user: no model
UserMessage(text) == [text |-> text, sender |-> "user"]

\* a ChatMessage of the bot
BotMessage(text, model) == [text |-> text, sender |-> "bot", model |-> model]

Event(name, model) == [name |-> name, model |-> model]

\* no getBotResponse call outside the App
RouterIdle == [model |-> "gemini", outcome |-> FetchRejected, calls |-> <<>>]

\* the exchange has a callback or a provider call outstanding
IsPending(x) == x.pc \in {"timer", "call"}

\* the simulated providers: their reply comes from a 500 ms timer
Simulated == {"chatgpt", "claude"}

AppInit ==
    /\ messages = <<>>
    /\ input = <<>>
    /\ isTyping = FALSE
    /\ selectedModel = "gemini"
    /\ exchanges = <<>>
    /\ httpRequests = 0
    /\ owner = <<>>
    /\ log = <<>>
    /\ event = Event("init", "none")

Init ==
    /\ AppInit
    /\ router = RouterIdle

----------------------------------------------------------------------------
(* Handlers *)

\* what the user types into the input field: white space only, a padded
\* word (the field is empty at the start and after a submission)
TypedTexts ==
    { <<" ">>, <<" ", "h", "\t">> }

\* line 232: onChange={(e) => setInput(e.target.value)}
onChange(v) ==
    /\ input' = v
    /\ event' = Event("other", "none")
    /\ UNCHANGED << messages, isTyping, selectedModel, exchanges,
                    httpRequests, owner, log, router >>

\* handleSendMessage with a slip: the log is set to the new Message, not
\* extended by it
handleSendMessageOverwrites ==
    LET trimmedInput == trim(input)
        id == Len(exchanges) + 1
        newUserMessage == UserMessage(trimmedInput)
    IN  /\ event' = Event("handleSendMessage", "none")
        /\ IF trimmedInput = <<>>
           THEN UNCHANGED << messages, input, isTyping, selectedModel,
                             exchanges, httpRequests, owner, log, router >>
           ELSE /\ Len(exchanges) < MaxExchanges
                /\ messages' = << newUserMessage >>
                /\ input' = <<>>
                /\ isTyping' = TRUE
                /\ exchanges' = Append(exchanges,
                       [ trimmedInput |-> trimmedInput,
                         selectedModel |-> selectedModel,
                         pc |-> "timer",
                         ahead |-> { k \in DOMAIN exchanges :
                                       /\ exchanges[k].pc = "call"
                                       /\ exchanges[k].calledWith \in Simulated },
                         calledWith |-> "none" ])
                /\ owner' = << id >>
                /\ log' = Append(log, [id |-> id, sender |-> "user"])
                /\ UNCHANGED << selectedModel, httpRequests, router >>

\* handleSendMessage with a slip: getBotResponse is called at once, without
\* the setTimeout
handleSendMessageCallsAtOnce ==
    LET trimmedInput == trim(input)
        id == Len(exchanges) + 1
        newUserMessage == UserMessage(trimmedInput)
    IN  /\ event' = Event("handleSendMessage", "none")
        /\ IF trimmedInput = <<>>
           THEN UNCHANGED << messages, input, isTyping, selectedModel,
                             exchanges, httpRequests, owner, log, router >>
           ELSE /\ Len(exchanges) < MaxExchanges
                /\ messages' = Append(messages, newUserMessage)
                /\ input' = <<>>
                /\ isTyping' = TRUE
                /\ exchanges' = Append(exchanges,
                       [ trimmedInput |-> trimmedInput,
                         selectedModel |-> selectedModel,
                         pc |-> "call",
                         ahead |-> {},
                         calledWith |-> selectedModel ])
                /\ httpRequests' = httpRequests + fetchCalls(selectedModel)
                /\ owner' = Append(owner, id)
                /\ log' = Append(log, [id |-> id, sender |-> "user"])
                /\ UNCHANGED << selectedModel, router >>

\* lines 140-158, up to and including the setTimeout call
handleSendMessage ==
    LET trimmedInput == trim(input)
        id == Len(exchanges) + 1
        newUserMessage == UserMessage(trimmedInput)
    IN  /\ event' = Event("handleSendMessage", "none")
        /\ IF trimmedInput = <<>>
           THEN UNCHANGED << messages, input, isTyping, selectedModel,
                             exchanges, httpRequests, owner, log, router >>
           ELSE /\ Len(exchanges) < MaxExchanges
                /\ messages' = Append(messages, newUserMessage)
                /\ input' = <<>>
                /\ isTyping' = TRUE
                /\ exchanges' = Append(exchanges,
                       [ trimmedInput |-> trimmedInput,
                         selectedModel |-> selectedModel,
                         pc |-> "timer",
                         ahead |-> { k \in DOMAIN exchanges :
                                       /\ exchanges[k].pc = "call"
                                       /\ exchanges[k].calledWith \in Simulated },
                         calledWith |-> "none" ])
                /\ owner' = Append(owner, id)
                /\ log' = Append(log, [id |-> id, sender |-> "user"])
                /\ UNCHANGED << selectedModel, httpRequests, router >>

\* handleModelChange with a slip: the history is kept
handleModelChangeKeepsHistory(model) ==
    /\ selectedModel' = model
    /\ event' = Event("handleModelChange", model)
    /\ UNCHANGED << messages, owner, input, isTyping, exchanges,
                    httpRequests, log, router >>

\* handleModelChange with a slip: the pending exchanges are cancelled
handleModelChangeCancels(model) ==
    /\ selectedModel' = model
    /\ messages' = <<>>
    /\ owner' = <<>>
    /\ exchanges' = [ i \in DOMAIN exchanges |->
                        IF IsPending(exchanges[i])
                        THEN [exchanges[i] EXCEPT !.pc = "failed"]
                        ELSE exchanges[i] ]
    /\ isTyping' = FALSE
    /\ event' = Event("handleModelChange", model)
    /\ UNCHANGED << input, httpRequests, log, router >>

\* lines 165-168
handleModelChange(model) ==
    /\ selectedModel' = model
    /\ messages' = <<>>
    /\ owner' = <<>>
    /\ event' = Event("handleModelChange", model)
    /\ UNCHANGED << input, isTyping, exchanges, httpRequests, log, router >>

\* the 1500 ms timer of exchange i may fire: timers of equal delay fire in
\* the order they were set, and a 500 ms timer that was already running
\* when this one was set fires first (ahead; emptied once the timer fired)
TimerDue(i) ==
    /\ i \in DOMAIN exchanges
    /\ exchanges[i].pc = "timer"
    /\ \A k \in 1..(i - 1) : exchanges[k].pc # "timer"
    /\ \A k \in exchanges[i].ahead : ~IsPending(exchanges[k])

\* lines 152-153: the setTimeout callback runs and calls getBotResponse,
\* which sends the request or sets the 500 ms timer and suspends
timeoutCallback(i) ==
    /\ TimerDue(i)
    /\ exchanges' = [exchanges EXCEPT
           ![i].pc = "call",
           ![i].ahead = {},
           ![i].calledWith = exchanges[i].selectedModel]
    /\ httpRequests' = httpRequests + fetchCalls(exchanges[i].selectedModel)
    /\ event' = Event("other", "none")
    /\ UNCHANGED << messages, input, isTyping, selectedModel, owner, log,
                    router >>

\* the provider call of exchange i may settle: the 500 ms timers of the
\* simulated providers fire in the order they were set
ReplyDue(i) ==
    /\ i \in DOMAIN exchanges
    /\ exchanges[i].pc = "call"
    /\ exchanges[i].calledWith \in Simulated =>
          \A k \in 1..(i - 1) :
              exchanges[k].selectedModel \in Simulated =>
                  ~IsPending(exchanges[k])

\* no HTTP call was made
NoHttp == [kind |-> "none"]

\* the outcomes the App is run against: one of each kind
AppOutcomes ==
    { FetchRejected,
      HttpResponse(500, JEmptyObject),
      HttpResponse(200, MalformedJson),
      HttpResponse(200, JEmptyObject),
      HttpResponse(200, BodyWithText(HiThere)),
      HttpResponse(200, BodyWithText(<<" ">>)) }

\* what the network can answer to the call of exchange i
OutcomesFor(i) ==
    IF exchanges[i].calledWith = "gemini" THEN AppOutcomes ELSE {NoHttp}

\* callbackResumes with a slip: the reply is appended only while the typing
\* indicator is still shown
callbackResumesIfTyping(i, outcome) ==
    LET x == exchanges[i]
        r == getBotResponse(x.trimmedInput, x.calledWith, outcome)
        newBotMessage == BotMessage(r.value, x.selectedModel)
    IN  /\ ReplyDue(i)
        /\ outcome \in OutcomesFor(i)
        /\ event' = Event("other", "none")
        /\ exchanges' = [exchanges EXCEPT ![i].pc = "done"]
        /\ isTyping' = FALSE
        /\ IF isTyping
           THEN /\ messages' = Append(messages, newBotMessage)
                /\ owner' = Append(owner, i)
                /\ log' = Append(log, [id |-> i, sender |-> "bot"])
           ELSE UNCHANGED << messages, owner, log >>
        /\ UNCHANGED << input, selectedModel, httpRequests, router >>

\* callbackResumes with a slip: the bot Message is tagged with the provider
\* selected when the reply arrives
callbackResumesCurrentModel(i, outcome) ==
    LET x == exchanges[i]
        r == getBotResponse(x.trimmedInput, x.calledWith, outcome)
        newBotMessage == BotMessage(r.value, selectedModel)
    IN  /\ ReplyDue(i)
        /\ outcome \in OutcomesFor(i)
        /\ event' = Event("other", "none")
        /\ messages' = Append(messages, newBotMessage)
        /\ isTyping' = FALSE
        /\ exchanges' = [exchanges EXCEPT ![i].pc = "done"]
        /\ owner' = Append(owner, i)
        /\ log' = Append(log, [id |-> i, sender |-> "bot"])
        /\ UNCHANGED << input, selectedModel, httpRequests, router >>

\* callbackResumes with a slip: a reply that arrives after the provider was
\* switched is dropped and its exchange never finishes
callbackResumesDropsStale(i, outcome) ==
    LET x == exchanges[i]
        r == getBotResponse(x.trimmedInput, x.calledWith, outcome)
        newBotMessage == BotMessage(r.value, x.selectedModel)
    IN  /\ ReplyDue(i)
        /\ outcome \in OutcomesFor(i)
        /\ x.selectedModel = selectedModel
        /\ event' = Event("other", "none")
        /\ messages' = Append(messages, newBotMessage)
        /\ isTyping' = FALSE
        /\ exchanges' = [exchanges EXCEPT ![i].pc = "done"]
        /\ owner' = Append(owner, i)
        /\ log' = Append(log, [id |-> i, sender |-> "bot"])
        /\ UNCHANGED << input, selectedModel, httpRequests, router >>

\* callbackResumes with a slip: the typing indicator is left on
callbackResumesKeepsTyping(i, outcome) ==
    LET x == exchanges[i]
        r == getBotResponse(x.trimmedInput, x.calledWith, outcome)
        newBotMessage == BotMessage(r.value, x.selectedModel)
    IN  /\ ReplyDue(i)
        /\ outcome \in OutcomesFor(i)
        /\ event' = Event("other", "none")
        /\ messages' = Append(messages, newBotMessage)
        /\ exchanges' = [exchanges EXCEPT ![i].pc = "done"]
        /\ owner' = Append(owner, i)
        /\ log' = Append(log, [id |-> i, sender |-> "bot"])
        /\ UNCHANGED << input, isTyping, selectedModel, httpRequests,
                        router >>

\* lines 153-156: getBotResponse settles and the callback resumes
callbackResumes(i, outcome) ==
    LET x == exchanges[i]
        r == getBotResponse(x.trimmedInput, x.calledWith, outcome)
        newBotMessage == BotMessage(r.value, x.selectedModel)
    IN  /\ ReplyDue(i)
        /\ outcome \in OutcomesFor(i)
        /\ event' = Event("other", "none")
        /\ IF r.kind = "return"
           THEN /\ messages' = Append(messages, newBotMessage)
                /\ isTyping' = FALSE
                /\ exchanges' = [exchanges EXCEPT ![i].pc = "done"]
                /\ owner' = Append(owner, i)
                /\ log' = Append(log, [id |-> i, sender |-> "bot"])
           ELSE \* the await throws: the callback's promise is rejected
                /\ exchanges' = [exchanges EXCEPT ![i].pc = "failed"]
                /\ UNCHANGED << messages, isTyping, owner, log >>
        /\ UNCHANGED << input, selectedModel, httpRequests, router >>

Next ==
    \/ \E v \in TypedTexts : onChange(v)
    \/ handleSendMessage
    \/ \E model \in AiModel : handleModelChange(model)
    \/ \E i \in DOMAIN exchanges : timeoutCallback(i)
    \/ \E i \in DOMAIN exchanges : \E outcome \in OutcomesFor(i) :
           callbackResumes(i, outcome)

Spec == Init /\ [][Next]_vars

\* the timers fire and every provider call settles; at most one 1500 ms
\* timer is due at a time, the oldest
Fairness ==
    /\ WF_vars(\E i \in 1..MaxExchanges : timeoutCallback(i))
    /\ \A i \in 1..MaxExchanges :
           WF_vars(\E outcome \in AppOutcomes \cup {NoHttp} :
                       callbackResumes(i, outcome))

LiveSpec == Spec /\ Fairness

----------------------------------------------------------------------------
(* getBotResponse on its own: any text, any identifier, any outcome *)

RouterInit ==
    /\ AppInit
    /\ router \in [ model : ModelIds, outcome : HttpOutcomes, calls : {<<>>} ]

\* one call getBotResponse(userMessage, router.model) under router.outcome
routerDispatch(userMessage) ==
    /\ Len(router.calls) < MaxCalls
    /\ router' = [router EXCEPT !.calls = Append(@,
           [ userMessage |-> userMessage,
             result |-> getBotResponse(userMessage, router.model,
                                       router.outcome) ])]
    /\ UNCHANGED appVars

RouterNext == \E userMessage \in Texts : routerDispatch(userMessage)

RouterSpec == RouterInit /\ [][RouterNext]_vars

----------------------------------------------------------------------------
(* Vocabulary of the properties *)

\* exchanges whose bot reply is still outstanding
Pending == { i \in DOMAIN exchanges : IsPending(exchanges[i]) }

\* the text is empty or white space only
IsBlank(s) == \A k \in DOMAIN s : s[k] \in WhiteSpace

\* t is s without its leading and trailing white space
IsTrimOf(t, s) ==
    \E a \in 1..(Len(s) + 1) : \E b \in 0..Len(s) :
        /\ t = SubSeq(s, a, b)
        /\ \A k \in 1..(a - 1) : s[k] \in WhiteSpace
        /\ \A k \in (b + 1)..Len(s) : s[k] \in WhiteSpace
        /\ t # <<>> => (t[1] \notin WhiteSpace /\ t[Len(t)] \notin WhiteSpace)

\* positions of the log at which a Message of exchange i and the sender
\* was appended
Appends(i, sender) ==
    { k \in DOMAIN log : log[k] = [id |-> i, sender |-> sender] }

\* the step is a submission of a text that is not blank
AcceptedSubmission ==
    /\ event'.name = "handleSendMessage"
    /\ ~IsBlank(input)

\* the log records what the step appended to messages: outside a provider
\* selection, messages grows by exactly the Messages the log gained
LogFollowsMessages ==
    LET n == Len(log') - Len(log)
    IN  /\ n >= 0
        /\ SubSeq(log', 1, Len(log)) = log
        /\ event'.name # "handleModelChange" =>
              /\ Len(messages') = Len(messages) + n
              /\ SubSeq(messages', 1, Len(messages)) = messages
              /\ \A k \in 1..n :
                    /\ messages'[Len(messages) + k].sender
                           = log'[Len(log) + k].sender
                    /\ owner'[Len(messages) + k] = log'[Len(log) + k].id

----------------------------------------------------------------------------
(* Properties *)

\* C1: every submission of a text that is not blank starts one exchange and
\* appends exactly one user Message carrying the trimmed text; an exchange
\* has exactly one bot Message appended once it has completed and none
\* before, and its user Message is appended before its bot Message,
\* whatever submissions and provider selections are interleaved.
C1_OneUserThenOneBot ==
    /\ [](\A i \in DOMAIN exchanges :
             /\ Cardinality(Appends(i, "user")) = 1
             /\ Cardinality(Appends(i, "bot"))
                    = (IF IsPending(exchanges[i]) THEN 0 ELSE 1)
             /\ \A u \in Appends(i, "user") : \A b \in Appends(i, "bot") :
                    u < b)
    /\ [][ /\ LogFollowsMessages
           /\ AcceptedSubmission =>
                 /\ Len(exchanges') = Len(exchanges) + 1
                 /\ Len(messages') = Len(messages) + 1
                 /\ messages'[Len(messages')].sender = "user"
                 /\ IsTrimOf(messages'[Len(messages')].text, input)
                 /\ owner'[Len(messages')] = Len(exchanges') ]_vars

\* C1 witness: two exchanges overlapped, the provider was switched in
\* between, and both have completed
C1_Witness ==
    /\ Len(exchanges) >= 2
    /\ Pending = {}
    /\ \E u \in Appends(2, "user") : \E b \in Appends(1, "bot") : u < b
    /\ exchanges[1].selectedModel # exchanges[2].selectedModel

\* C2: at most one exchange is in flight: whenever isTyping is true exactly
\* one exchange is pending, and a submission made while isTyping is true
\* starts no new exchange.
C2_AtMostOneInFlight ==
    /\ [](isTyping => Cardinality(Pending) = 1)
    /\ [][(isTyping /\ event'.name = "handleSendMessage") =>
              exchanges' = exchanges]_vars

\* C3: immediately after handleModelChange, in any state, messages is the
\* empty sequence and selectedModel is the chosen provider.
C3_ModelChangeClears ==
    event.name = "handleModelChange" =>
        /\ messages = <<>>
        /\ selectedModel = event.model

\* C3 witness: a provider other than the initial one was selected while an
\* exchange was pending and its user Message was in the log
C3_Witness ==
    /\ event.name = "handleModelChange"
    /\ event.model = "claude"
    /\ Pending # {}
    /\ log # <<>>

\* C4: every bot Message in messages carries the provider that was selected
\* when its exchange was submitted, which is also the provider that was
\* passed to getBotResponse for that exchange, whatever is selected now.
C4_BotCarriesSubmissionProvider ==
    /\ [](\A k \in DOMAIN messages :
             messages[k].sender = "bot" =>
                 /\ messages[k].model = exchanges[owner[k]].selectedModel
                 /\ messages[k].model = exchanges[owner[k]].calledWith)
    /\ [][AcceptedSubmission =>
              exchanges'[Len(exchanges')].selectedModel = selectedModel]_vars

\* C4 witness: a bot Message in messages carries a provider that is no
\* longer the selected one
C4_Witness ==
    \E k \in DOMAIN messages :
        /\ messages[k].sender = "bot"
        /\ messages[k].model # selectedModel
        /\ messages[k].model = exchanges[owner[k]].calledWith

\* C5: a submission of an empty or white-space-only input changes nothing:
\* messages, isTyping, selectedModel, the exchanges and the input are the
\* same after the step as before it, also while an exchange is pending.
C5_BlankSubmissionIgnored ==
    [][(event'.name = "handleSendMessage" /\ IsBlank(input)) =>
           UNCHANGED << messages, isTyping, selectedModel, exchanges,
                        httpRequests, input >>]_vars

\* C5 witness: white space was submitted while an exchange was pending
C5_Witness ==
    /\ event.name = "handleSendMessage"
    /\ input = <<" ">>
    /\ Pending # {}
    /\ isTyping

\* C6: an exchange that has started always completes: with the timers
\* firing and every provider call settling, each started exchange eventually
\* has its bot Message appended, no submission or provider selection
\* prevents it, and isTyping is false whenever no exchange is pending.
C6_ExchangeCompletes ==
    /\ \A i \in 1..MaxExchanges :
           (i \in DOMAIN exchanges) ~> (Appends(i, "bot") # {})
    /\ [](Pending = {} => ~isTyping)

\* C6 witness: the provider was switched while exchange 1 was pending, a
\* second exchange was submitted meanwhile, and all have completed
C6_Witness ==
    /\ Len(exchanges) >= 2
    /\ Pending = {}
    /\ ~isTyping
    /\ exchanges[1].selectedModel # selectedModel
    /\ \E u \in Appends(2, "user") : \E b \in Appends(1, "bot") : u < b
    /\ Appends(2, "bot") # {}

\* the value is a string
IsString(v) == DOMAIN v = 1..Len(v) /\ \A k \in DOMAIN v : v[k] \in STRING

IsFailure(outcome) ==
    \/ outcome.kind = "reject"
    \/ outcome.status < 200
    \/ outcome.status > 299
    \/ outcome.body.type = "malformed"

\* C8: getGeminiResponse maps every failure of the network call (a status
\* outside the success range, an exception thrown by the request or by
\* parsing the body) to the network-fallback string and never throws.
C8_FailureYieldsNetworkIssue ==
    (router.model = "gemini" /\ IsFailure(router.outcome)) =>
        \A c \in DOMAIN router.calls :
            router.calls[c].result = Return(networkIssueText)

\* C8 witness: the live provider was called and the endpoint answered 500
C8_Witness ==
    /\ router.model = "gemini"
    /\ router.outcome.kind = "response"
    /\ router.outcome.status = 500
    /\ Len(router.calls) >= 1
    /\ router.calls[1].result = Return(networkIssueText)

\* C9: on a success status the live provider returns the text at
\* candidates[0].content.parts[0].text of the parsed body, and for every
\* parsed body in which that path is absent or malformed ({}, no candidates,
\* a candidate without content or parts, a null body) it returns
\* "I'm sorry, I couldn't generate a response. Please try again.".
C9_TextOrCouldNotGenerate ==
    (/\ router.model = "gemini"
     /\ router.outcome.kind = "response"
     /\ router.outcome.status \in 200..299) =>
        \A c \in DOMAIN router.calls :
            /\ \A t \in ReplyTexts \ {<<>>} :
                   router.outcome.body = BodyWithText(t) =>
                       router.calls[c].result = Return(t)
            /\ router.outcome.body \in BodiesWithoutText =>
                   router.calls[c].result = Return(couldNotGenerateText)

\* the fixed persona string of a simulated provider
PersonaText(model) ==
    IF model = "chatgpt" THEN chatgptPersonaText ELSE claudePersonaText

\* C10: for chatgpt and claude, getBotResponse returns on every call exactly
\* the persona string of the provider, whatever the text, and cannot fail.
C10_SimulatedReturnsPersona ==
    router.model \in {"chatgpt", "claude"} =>
        /\ \A c \in DOMAIN router.calls :
               router.calls[c].result = Return(PersonaText(router.model))
        /\ \A c, d \in DOMAIN router.calls :
               router.calls[c].result = router.calls[d].result

\* C10 witness: the claude provider was called with two different texts
C10_Witness ==
    /\ router.model = "claude"
    /\ Len(router.calls) >= 2
    /\ router.calls[1].userMessage # router.calls[2].userMessage
    /\ router.calls[2].result = Return(claudePersonaText)

\* the newest exchange is the only one pending, it was submitted to an
\* empty log, and nothing but its user Message has been appended since
SingleExchangeRunning ==
    LET i == Len(exchanges)
    IN  /\ i >= 1
        /\ Pending = {i}
        /\ isTyping
        /\ input = <<>>
        /\ selectedModel = exchanges[i].selectedModel
        /\ messages = << UserMessage(exchanges[i].trimmedInput) >>

\* the newest exchange has completed and the log holds its two Messages
SingleExchangeDone ==
    LET i == Len(exchanges)
        p == selectedModel
    IN  /\ i >= 1
        /\ Pending = {}
        /\ ~isTyping
        /\ exchanges[i].selectedModel = p
        /\ Len(messages) = 2
        /\ messages[1] = UserMessage(exchanges[i].trimmedInput)
        /\ \E outcome \in (IF p = "gemini" THEN AppOutcomes ELSE {NoHttp}) :
               messages[2] = BotMessage(
                   getBotResponse(exchanges[i].trimmedInput, p, outcome).value,
                   p)
        /\ p = "chatgpt" => messages[2].text = chatgptPersonaText
        /\ p = "claude" => messages[2].text = claudePersonaText

\* the step is made by a timer or a settled provider call, not by the user
NoUserAction == event'.name = "other" /\ input' = input

\* C11: end to end, one exchange: from an idle state with an empty log and
\* provider p selected, a submission of a text t that is not blank, followed
\* by no other user action, ends with messages = [user Message trim(t), bot
\* Message getBotResponse(trim(t), p) tagged p] and isTyping = false; with
\* chatgpt selected the bot text is the ChatGPT persona string.
C11_SingleExchangeEndToEnd ==
    [][ /\ (AcceptedSubmission /\ messages = <<>> /\ Pending = {}) =>
              /\ SingleExchangeRunning'
              /\ IsTrimOf(messages'[1].text, input)
              /\ exchanges'[Len(exchanges')].selectedModel = selectedModel
        /\ (SingleExchangeRunning /\ NoUserAction) =>
              (SingleExchangeRunning' \/ SingleExchangeDone') ]_vars

\* C11 witness: one exchange with chatgpt selected ran undisturbed from an
\* empty log to its end
C11_Witness ==
    /\ Len(exchanges) = 1
    /\ SingleExchangeDone
    /\ input = <<>>
    /\ messages = << UserMessage(<<"h">>),
                     BotMessage(chatgptPersonaText, "chatgpt") >>

\* C12: conversations are not mixed across providers: every bot Message in
\* messages carries the provider that is selected now.
C12_BotCarriesSelectedProvider ==
    \A k \in DOMAIN messages :
        messages[k].sender = "bot" => messages[k].model = selectedModel

\* C13: messages is append-only between provider selections: a step other
\* than handleModelChange leaves messages unchanged or extends it by one
\* Message at the end; no Message is changed, moved or removed, and the only
\* other change is the reset to the empty sequence by handleModelChange.
C13_AppendOnly ==
    [][ /\ event'.name # "handleModelChange" =>
              \/ messages' = messages
              \/ /\ Len(messages') = Len(messages) + 1
                 /\ SubSeq(messages', 1, Len(messages)) = messages
        /\ event'.name = "handleModelChange" => messages' = <<>> ]_vars

\* C13 witness: after a reset the log has grown again to three Messages
C13_Witness ==
    /\ Len(messages) >= 3
    /\ Len(log) > Len(messages)
    /\ event.name = "other"

\* C14: an accepted submission takes effect in one step, before any provider
\* call: the user Message (trimmed text, no model) is appended, isTyping
\* becomes true, the input becomes empty and selectedModel is unchanged;
\* getBotResponse is called for the exchange only later, when its timer has
\* fired.
C14_SubmissionBeforeCall ==
    /\ [][AcceptedSubmission =>
              LET i == Len(exchanges')
                  m == messages'[Len(messages')]
              IN  /\ i = Len(exchanges) + 1
                  /\ messages' = Append(messages, m)
                  /\ m.sender = "user"
                  /\ DOMAIN m = {"text", "sender"}
                  /\ IsTrimOf(m.text, input)
                  /\ isTyping'
                  /\ input' = <<>>
                  /\ selectedModel' = selectedModel
                  /\ exchanges'[i].pc = "timer"
                  /\ exchanges'[i].calledWith = "none"
                  /\ httpRequests' = httpRequests]_vars
    /\ [](\A i \in DOMAIN exchanges :
             exchanges[i].pc = "timer" <=> exchanges[i].calledWith = "none")
    /\ [][\A i \in DOMAIN exchanges :
              (exchanges[i].calledWith = "none"
                   /\ exchanges'[i].calledWith # "none") =>
                  (event'.name = "other" /\ exchanges[i].pc = "timer")]_vars

\* C14 witness: a submission was accepted while another exchange was
\* pending, and no provider call has been made for it
C14_Witness ==
    /\ event.name = "handleSendMessage"
    /\ Len(exchanges) = 2
    /\ exchanges[2].pc = "timer"
    /\ exchanges[2].calledWith = "none"
    /\ exchanges[1].pc = "call"
    /\ input = <<>>
    /\ isTyping

\* C15: a provider switch does not abort a pending exchange: the switch
\* resets messages and leaves isTyping and the exchange as they are; the
\* reply still arrives, is appended to the reset log tagged with the
\* provider captured at submission, and isTyping becomes false.
C15_SwitchKeepsPendingExchange ==
    /\ [][event'.name = "handleModelChange" =>
              /\ messages' = <<>>
              /\ isTyping' = isTyping
              /\ exchanges' = exchanges]_vars
    /\ [][\A i \in DOMAIN exchanges :
              (IsPending(exchanges[i]) /\ ~IsPending(exchanges'[i])) =>
                  /\ exchanges'[i].pc = "done"
                  /\ Len(messages') = Len(messages) + 1
                  /\ SubSeq(messages', 1, Len(messages)) = messages
                  /\ messages'[Len(messages')].sender = "bot"
                  /\ messages'[Len(messages')].model
                         = exchanges[i].selectedModel
                  /\ ~isTyping']_vars
    /\ \A i \in 1..MaxExchanges :
           (/\ i \in DOMAIN exchanges
            /\ IsPending(exchanges[i])
            /\ exchanges[i].selectedModel # selectedModel)
               ~> (Appends(i, "bot") # {})

\* C15 witness: the provider was switched while the only exchange was
\* pending, and the reset log now holds nothing but its reply
C15_Witness ==
    /\ Len(exchanges) = 1
    /\ exchanges[1].pc = "done"
    /\ Len(messages) = 1
    /\ messages[1].sender = "bot"
    /\ messages[1].model = exchanges[1].selectedModel
    /\ messages[1].model # selectedModel
    /\ ~isTyping

\* C16: no retries: every exchange dispatched to the live provider sends
\* exactly one HTTP request whatever its outcome, and an exchange dispatched
\* to a simulated provider sends none, so the number of requests sent equals
\* the number of live-provider exchanges dispatched so far.
C16_OneRequestPerLiveExchange ==
    /\ [](httpRequests =
              Cardinality({ i \in DOMAIN exchanges :
                              /\ exchanges[i].pc # "timer"
                              /\ exchanges[i].selectedModel = "gemini" }))
    /\ [][\A i \in DOMAIN exchanges :
              (exchanges[i].pc = "call" /\ exchanges'[i].pc # "call") =>
                  httpRequests' = httpRequests]_vars

\* C16 witness: a live-provider exchange failed, a simulated one completed,
\* and one request was sent
C16_Witness ==
    /\ Len(exchanges) = 2
    /\ Pending = {}
    /\ exchanges[1].selectedModel = "gemini"
    /\ exchanges[2].selectedModel = "chatgpt"
    /\ httpRequests = 1
    /\ \E k \in DOMAIN messages :
           messages[k] = BotMessage(networkIssueText, "gemini")

\* C17: every Message in messages, user or bot, has a text that is not
\* blank, for every reply the live endpoint can send.
C17_NoBlankMessage ==
    \A k \in DOMAIN messages : ~IsBlank(messages[k].text)

\* C18: the typing flag covers every pending exchange: isTyping is true
\* whenever some exchange has not yet had its bot Message appended.
C18_TypingCoversPending ==
    Pending # {} => isTyping

\* C19: bot replies are appended in submission order: the bot Message of an
\* exchange is never appended before the bot Message of an exchange that
\* was submitted earlier.
C19_RepliesInSubmissionOrder ==
    \A i, j \in DOMAIN exchanges :
        (i < j /\ Appends(j, "bot") # {}) =>
            /\ Appends(i, "bot") # {}
            /\ \A a \in Appends(i, "bot") : \A b \in Appends(j, "bot") :
                   a < b

\* C20: every bot Message in messages is preceded in messages by the user
\* Message of its own exchange, so the log never begins with a bot Message.
C20_BotFollowsItsUserMessage ==
    \A k \in DOMAIN messages :
        messages[k].sender = "bot" =>
            \E u \in 1..(k - 1) :
                /\ messages[u].sender = "user"
                /\ owner[u] = owner[k]

====
